---------------------------- MODULE Spec2Model ----------------------------
(***************************************************************************)
(* A model of Taggi (src/src/index.js): the shortcode and regex            *)
(* extractors, the comment-anchored injection helpers and init().          *)
(*                                                                         *)
(* HTML text is a sequence of tokens.  A token is a string that stands for *)
(* one character ("[", "]", " ", "x") or for a run of characters holding   *)
(* no whitespace and no bracket ("<b>", "<!--taggi:start:A-->", "<T1>"):   *)
(* the marker pattern of parseShortcodeForTag treats such a run exactly as *)
(* it treats one ordinary character.  The document is the token sequence   *)
(* of its serialisation, so innerHTML is a sub-sequence of it, a TreeWalker*)
(* walks it left to right, and sibling order is token order.               *)
(***************************************************************************)
EXTENDS Integers, Sequences, FiniteSets, TLC

VARIABLES
    config,     \* this.config as [order, tags]: Object.entries order and the tag definitions
    boxes,      \* the elements of the page that carry class "box"
    doc,        \* the document, serialised
    pc,         \* where init() stands: "idle", "tag", "inject", "hung"
    scope,      \* resolveRoot(root) of the running init()
    ti,         \* index in config.order of the tag being processed
    buckets,    \* the Map target -> fragments of the current tag, in insertion order
    hist,       \* history of the runs, for the properties: runs and edits so far, the
                \* document at the start of the last run, whether nothing was edited
                \* since it ended (clean), whether it repeated the run before it
                \* (again), whether it threw, and its setCommentBlock calls
    text,       \* parseShortcodeForTag / parseRegex: the text argument
    tagName,    \* parseShortcodeForTag: the tagName argument
    tag,        \* parseShortcodeForTag / parseRegex: the tag argument
    parsed,     \* the extractor's return value { content, found }
    re,         \* parseRegex: the RegExp object `re` (source, flags, lastIndex)
    iters       \* parseRegex: iterations of the exec loop so far

vars == <<config, boxes, doc, pc, scope, ti, buckets, hist,
          text, tagName, tag, parsed, re, iters>>

domVars == <<config, boxes, doc, scope, ti, buckets, hist>>

(***************************************************************************)
(* Bounds of the model.                                                    *)
(***************************************************************************)
MaxPieces == 2      \* pieces of text per source element of the page
MaxNest == 3         \* pieces per text of the pages with nested brackets or regex tags
MaxLen == 4         \* pieces per text handed to an extractor alone
MaxRuns == 2        \* init() runs per behaviour
MaxEdits == 1       \* edits of a source element between runs
MaxIters == 9       \* exec-loop iterations followed before the model stops looking

(***************************************************************************)
(* Sequence helpers.                                                       *)
(***************************************************************************)
RECURSIVE Flatten(_)
Flatten(ss) == IF ss = <<>> THEN <<>> ELSE Head(ss) \o Flatten(Tail(ss))

Contains(s, x) == \E i \in 1..Len(s) : s[i] = x

\* first index of tok in s at or after i; 0 when there is none
RECURSIVE IndexFrom(_, _, _)
IndexFrom(s, tok, i) ==
    IF i > Len(s) THEN 0
    ELSE IF s[i] = tok THEN i
    ELSE IndexFrom(s, tok, i + 1)

IndexOf(s, tok) == IndexFrom(s, tok, 1)

\* Array.from(new Set(list)): first occurrences, in order
RECURSIVE Unique(_)
Unique(list) ==
    IF list = <<>> THEN <<>>
    ELSE LET init == Unique(SubSeq(list, 1, Len(list) - 1))
             last == list[Len(list)]
         IN  IF Contains(init, last) THEN init ELSE Append(init, last)

Reverse(s) == [i \in 1..Len(s) |-> s[Len(s) + 1 - i]]

(***************************************************************************)
(* Render functions.  tag.output is a caller's function; the model knows   *)
(* three: "bold" is c => '<b>' + c + '</b>', "hash" is c => '#' + c and    *)
(* "ital" is g => '<i>' + g + '</i>'.  "" stands for a missing output.     *)
(***************************************************************************)
IsFunction(output) == output \in {"bold", "hash", "ital"}

Output(output, content) ==
    CASE output = "bold" -> <<"<b>">> \o content \o <<"</b>">>
      [] output = "hash" -> <<"#">> \o content
      [] output = "ital" -> <<"<i>">> \o content \o <<"</i>">>

\* options.fallbackOutput: <span class="taggit" data-tag="${tagName}">${content}</span>
fallbackOutput(content, name) ==
    <<"<span", " ", "class=\"taggit\"", " ", "data-tag=\"" \o name \o "\">">>
        \o content \o <<"</span>">>

\* a string is falsy when empty; inject is kept as its sequence of tokens
\* ("!" and the selector apart), so that trim, startsWith and slice are computed
Truthy(str) == str # <<>>

(***************************************************************************)
(* parseShortcodeForTag: /\[([^\s\]]+)\s+([^\]]+)\]/g with a replacer.     *)
(***************************************************************************)
IsSpace(c) == c = " "
IsNameChar(c) == ~IsSpace(c) /\ c # "]"

\* end (exclusive) of the longest run of name characters that starts at i
RECURSIVE NameEnd(_, _)
NameEnd(t, i) ==
    IF i <= Len(t) /\ IsNameChar(t[i]) THEN NameEnd(t, i + 1) ELSE i

RECURSIVE SpaceEnd(_, _)
SpaceEnd(t, i) ==
    IF i <= Len(t) /\ IsSpace(t[i]) THEN SpaceEnd(t, i + 1) ELSE i

\* The match of the marker pattern that starts exactly at i, as the backtracking
\* matcher finds it: the name is the whole run of [^\s\]] ending at k (a shorter
\* name would be followed by a name character, not by \s), \s+ takes every space
\* (up to s) unless the content would be empty, and the content runs to the first
\* "]" (at m).
NoMarker == [ok |-> FALSE, name |-> <<>>, inner |-> <<>>, end |-> 0]

MarkerSpan(t, i, k, s, m) ==
    IF /\ i <= Len(t) /\ t[i] = "["
       /\ k > i + 1
       /\ s > k
       /\ m # 0
       /\ (s < m \/ s - k >= 2)
    THEN [ok |-> TRUE,
          name |-> SubSeq(t, i + 1, k - 1),
          inner |-> IF s < m THEN SubSeq(t, s, m - 1) ELSE SubSeq(t, m - 1, m - 1),
          end |-> m]
    ELSE NoMarker

MarkerFrom(t, i, k) == MarkerSpan(t, i, k, SpaceEnd(t, k), IndexFrom(t, "]", k))

MarkerAt(t, i) == MarkerFrom(t, i, NameEnd(t, i + 1))

\* lines 178-181
Render(tg, inner, name) ==
    IF IsFunction(tg.output) THEN Output(tg.output, inner) ELSE fallbackOutput(inner, name)

\* lines 182-184
Emit(tg, html) == [out |-> IF Truthy(tg.inject) THEN <<>> ELSE html, found |-> <<html>>]

\* the replacer callback of line 176, for the match m with groups mk
Replacer(mk, m, tName, tg) ==
    IF mk.name # <<tName>> THEN [out |-> m, found |-> <<>>]
    ELSE Emit(tg, Render(tg, mk.inner, tName))

Join(r, rest) == [content |-> r.out \o rest.content, found |-> r.found \o rest.found]

\* text.replace(re, replacer) from position i on: leftmost matches, never overlapping
RECURSIVE ReplaceMarkers(_, _, _, _)
ReplaceAt(t, i, tName, tg, mk) ==
    IF mk.ok
    THEN Join(Replacer(mk, SubSeq(t, i, mk.end), tName, tg),
              ReplaceMarkers(t, mk.end + 1, tName, tg))
    ELSE Join([out |-> <<t[i]>>, found |-> <<>>], ReplaceMarkers(t, i + 1, tName, tg))

ReplaceMarkers(t, i, tName, tg) ==
    IF i > Len(t) THEN [content |-> <<>>, found |-> <<>>]
    ELSE ReplaceAt(t, i, tName, tg, MarkerAt(t, i))

parseShortcodeForTag(t, tName, tg) == ReplaceMarkers(t, 1, tName, tg)

(***************************************************************************)
(* Regular expressions.  tag.regex.source is one of three patterns, each a *)
(* literal prefix followed by one capture group over a run of one          *)
(* character: hash then one or more x; zero or more x (it matches the      *)
(* empty string); x y then zero or more z.                                 *)
(***************************************************************************)
Sources == {"#(x+)", "(x*)", "xy(z*)"}

Prefix(source) ==
    CASE source = "#(x+)" -> <<"#">>
      [] source = "(x*)" -> <<>>
      [] source = "xy(z*)" -> <<"x", "y">>

GroupChar(source) == IF source = "xy(z*)" THEN "z" ELSE "x"
GroupMin(source) == IF source = "#(x+)" THEN 1 ELSE 0

RECURSIVE RunEnd(_, _, _)
RunEnd(t, c, i) == IF i <= Len(t) /\ t[i] = c THEN RunEnd(t, c, i + 1) ELSE i

\* the prefix ends before g and the group's greedy run before e
MatchEndIf(source, t, i, g, e) ==
    IF /\ g - 1 <= Len(t)
       /\ SubSeq(t, i, g - 1) = Prefix(source)
       /\ e - g >= GroupMin(source)
    THEN e ELSE 0

\* end (exclusive) of the greedy match of the pattern at i, or 0 when none starts there
MatchEndAt(source, t, i) ==
    MatchEndIf(source, t, i, i + Len(Prefix(source)),
               RunEnd(t, GroupChar(source), i + Len(Prefix(source))))

\* leftmost position at or after i where the pattern matches; 0 when none
RECURSIVE SearchFrom(_, _, _)
SearchFrom(source, t, i) ==
    IF i > Len(t) + 1 THEN 0
    ELSE IF MatchEndAt(source, t, i) # 0 THEN i
    ELSE SearchFrom(source, t, i + 1)

HasG(flags) == flags \in {"g", "gi", "ig"}

\* lines 199-201
EnsureG(flags) == IF HasG(flags) THEN flags ELSE flags \o "g"

ExecMatch(r, t, at, e) ==
    [match |-> TRUE, index |-> at - 1, end |-> e - 1,
     group |-> SubSeq(t, at + Len(Prefix(r.source)), e - 1),
     re |-> IF HasG(r.flags) THEN [r EXCEPT !.lastIndex = e - 1] ELSE r]

ExecAt(r, t, at) ==
    IF at = 0
    THEN [match |-> FALSE, index |-> 0, end |-> 0, group |-> <<>>,
          re |-> [r EXCEPT !.lastIndex = 0]]
    ELSE ExecMatch(r, t, at, MatchEndAt(r.source, t, at))

\* RegExp.prototype.exec: a global expression searches from lastIndex and leaves
\* lastIndex at the end of the match (at 0 after a failure); any other starts at 0.
Exec(r, t) ==
    ExecAt(r, t, SearchFrom(r.source, t, (IF HasG(r.flags) THEN r.lastIndex ELSE 0) + 1))

\* content.replace(reForReplace, ""): String.prototype.replace steps past an empty match
RECURSIVE RemoveMatches(_, _, _)
RemoveAt(source, t, i, e) ==
    IF e = 0 \/ e = i
    THEN <<t[i]>> \o RemoveMatches(source, t, i + 1)
    ELSE RemoveMatches(source, t, e)

RemoveMatches(source, t, i) ==
    IF i > Len(t) THEN <<>> ELSE RemoveAt(source, t, i, MatchEndAt(source, t, i))

\* the exec loop of lines 205-209, run to its end: the fragments, whether
\* tag.output(...) threw (it is not a function), and whether the loop never ends
\* (an iteration that leaves `re` as it found it repeats for ever)
Pushed(html, rest) == [rest EXCEPT !.found = <<html>> \o @]

RECURSIVE ExecLoop(_, _, _)
LoopBody(r, t, tg, x) ==
    IF ~x.match THEN [found |-> <<>>, threw |-> FALSE, hung |-> FALSE]
    ELSE IF ~IsFunction(tg.output) THEN [found |-> <<>>, threw |-> TRUE, hung |-> FALSE]
    ELSE IF x.re = r THEN [found |-> <<>>, threw |-> FALSE, hung |-> TRUE]
    ELSE Pushed(Output(tg.output, x.group), ExecLoop(x.re, t, tg))

ExecLoop(r, t, tg) == LoopBody(r, t, tg, Exec(r, t))

NewRegExp(regex) == [source |-> regex.source, flags |-> EnsureG(regex.flags), lastIndex |-> 0]

RegexResult(content, loop) ==
    [content |-> content, found |-> loop.found, threw |-> loop.threw, hung |-> loop.hung]

parseRegex(t, tg) ==
    RegexResult(RemoveMatches(tg.regex.source, t, 1), ExecLoop(NewRegExp(tg.regex), t, tg))

(***************************************************************************)
(* Tag definitions: { selector, output, inject, position, regex }.         *)
(* selector is the list of selectors (a single string is the list of one,  *)
(* line 133; the empty list stands for a missing selector); "" stands for  *)
(* a missing output or position, the empty sequence for a missing inject,  *)
(* a regex with source "" for a missing regex.                             *)
(***************************************************************************)
NoRegex == [source |-> "", flags |-> ""]

Tag(sel, out, inj, pos, rx) ==
    [selector |-> sel, output |-> out, inject |-> inj, position |-> pos, regex |-> rx]

HasRegex(tg) == tg.regex.source # ""

(***************************************************************************)
(* The document.  Four elements: the boxes T1 and T2 (T2 inside T1) and    *)
(* the source elements E1 and E2, which hold text only.                    *)
(***************************************************************************)
Elements == {"T1", "T2", "E1", "E2"}
SourceElements == {"E1", "E2"}

Open(e) == "<" \o e \o ">"
Close(e) == "</" \o e \o ">"
Comment(data) == "<!--" \o data \o "-->"

Page(t1, t2) ==
    <<Open("T1"), Open("T2"), Open("E2")>> \o t2 \o <<Close("E2"), Close("T2"), Open("E1")>>
        \o t1 \o <<Close("E1"), Close("T1")>>

OpenIdx(d, e) == IndexOf(d, Open(e))
CloseIdx(d, e) == IndexOf(d, Close(e))

\* el.innerHTML, read and written
InnerHTML(d, e) == SubSeq(d, OpenIdx(d, e) + 1, CloseIdx(d, e) - 1)
SetInnerHTML(d, e, html) ==
    SubSeq(d, 1, OpenIdx(d, e)) \o html \o SubSeq(d, CloseIdx(d, e), Len(d))

IsOpenTag(tok) == \E e \in Elements : tok = Open(e)
ElementOf(tok) == CHOOSE e \in Elements : tok = Open(e)

\* the elements in document order
ElementsOf(d) ==
    LET opens == SelectSeq(d, IsOpenTag)
    IN  [i \in 1..Len(opens) |-> ElementOf(opens[i])]

\* Element.matches for the selectors the model uses
Matches(e, sel) ==
    CASE sel = ".taggit" -> e \in SourceElements
      [] sel = "#E1" -> e = "E1"
      [] sel = ".box" -> e \in boxes
      [] OTHER -> FALSE

\* a is an inclusive ancestor of e
IsAncestorOrSelf(d, a, e) ==
    OpenIdx(d, a) <= OpenIdx(d, e) /\ CloseIdx(d, e) <= CloseIdx(d, a)

\* scope.querySelectorAll(sel): the descendants of the scope that match, in order
querySelectorAll(d, sc, sel) ==
    LET In(e) == /\ Matches(e, sel)
                 /\ (sc = "document" \/ (e # sc /\ IsAncestorOrSelf(d, sc, e)))
    IN  SelectSeq(ElementsOf(d), In)

First(all) == IF all = <<>> THEN "" ELSE all[1]

\* document.querySelector(sel); "" is null
querySelector(d, sel) == First(querySelectorAll(d, "document", sel))

\* the element of cand that opens last; "" when there is none
Innermost(d, cand) ==
    IF cand = {} THEN ""
    ELSE CHOOSE a \in cand : \A b \in cand : OpenIdx(d, b) <= OpenIdx(d, a)

\* el.closest(sel); "" is null
closest(d, el, sel) ==
    Innermost(d, {a \in Elements : Matches(a, sel) /\ IsAncestorOrSelf(d, a, el)})

\* innermost element around position i; "" at top level
ParentOf(d, i) ==
    Innermost(d, {e \in Elements : OpenIdx(d, e) < i /\ i < CloseIdx(d, e)})

CloseOrEnd(d, parent) == IF parent = "" THEN Len(d) + 1 ELSE CloseIdx(d, parent)

\* position just past the last sibling that follows position i
SiblingsEnd(d, i) == CloseOrEnd(d, ParentOf(d, i))

RECURSIVE TrimLeft(_)
TrimLeft(s) == IF s # <<>> /\ IsSpace(Head(s)) THEN TrimLeft(Tail(s)) ELSE s

Trim(s) == Reverse(TrimLeft(Reverse(TrimLeft(s))))

normalizeInside(pos) ==
    CASE pos \in {"afterbegin", "beforeend"} -> pos
      [] pos = "after" -> "afterbegin"
      [] pos = "before" -> "beforeend"
      [] OTHER -> "beforeend"

\* The model's one inject callback, el => T1, is the sequence <<"function", "T1">>.
IsInjectFunction(inject) == Len(inject) = 2 /\ inject[1] = "function"

\* a selector string is one token of the sequence
Selector(s) == IF Len(s) = 1 THEN s[1] ELSE ""

Or(a, b) == IF a # "" THEN a ELSE b

\* lines 41-45, sel the selector after the "!"
ResolveForced(d, sel, el) == IF sel = <<>> THEN "" ELSE closest(d, el, Selector(sel))

\* lines 39-47
ResolveString(d, raw, el) ==
    IF raw = <<>> THEN ""
    ELSE IF Head(raw) = "!" THEN ResolveForced(d, Trim(Tail(raw)), el)
    ELSE Or(closest(d, el, Selector(raw)), querySelector(d, Selector(raw)))

resolveInjectTarget(d, inject, el) ==
    IF IsInjectFunction(inject) THEN inject[2] ELSE ResolveString(d, Trim(inject), el)

Before(i, limit) == IF i # 0 /\ i < limit THEN i ELSE 0

\* first comment with this data among the descendants of root; 0 is null
findComment(d, root, data) ==
    Before(IndexFrom(d, Comment(data), OpenIdx(d, root) + 1), CloseIdx(d, root))

InsertAt(d, at, html) == SubSeq(d, 1, at) \o html \o SubSeq(d, at + 1, Len(d))

\* target.insertAdjacentHTML(pos, html), pos afterbegin or beforeend
insertAdjacentHTML(d, target, pos, html) ==
    InsertAt(d, IF pos = "afterbegin" THEN OpenIdx(d, target) ELSE CloseIdx(d, target) - 1,
             html)

startSig(tName) == "taggi:start:" \o tName
endSig(tName) == "taggi:end:" \o tName

\* lines 72-73 and 76-77
Located(d, target, tName) ==
    [doc |-> d,
     start |-> findComment(d, target, startSig(tName)),
     end |-> findComment(d, target, endSig(tName))]

\* mutant of EnsureFrom: the pair is inserted without looking at what was found
EnsureFromAlways(found, target, tName, pos) ==
    Located(insertAdjacentHTML(found.doc, target, pos,
                               <<Comment(startSig(tName)), Comment(endSig(tName))>>),
            target, tName)

\* lines 74-79
EnsureFrom(found, target, tName, pos) ==
    IF found.start = 0 \/ found.end = 0
    THEN Located(insertAdjacentHTML(found.doc, target, pos,
                                    <<Comment(startSig(tName)), Comment(endSig(tName))>>),
                 target, tName)
    ELSE found

ensureCommentBlock(d, target, tName, pos) ==
    EnsureFrom(Located(d, target, tName), target, tName, pos)

\* mutant of Cleared: the previous content is left between the anchors
ClearedNothing(b, stop) == [doc |-> b.doc, end |-> b.end]

\* lines 55-60: the siblings after start are removed up to end, or every later
\* sibling when end is not among them; stop is the first position kept
Cleared(b, stop) ==
    [doc |-> SubSeq(b.doc, 1, b.start) \o SubSeq(b.doc, stop, Len(b.doc)),
     end |-> IF b.end > b.start THEN b.end - (stop - b.start - 1) ELSE b.end]

\* lines 62-66; insertBefore throws when end is no child of start's parent
Inserted(c, unique, siblings) ==
    IF unique = <<>> THEN [doc |-> c.doc, threw |-> FALSE]
    ELSE IF ~siblings THEN [doc |-> c.doc, threw |-> TRUE]
    ELSE [doc |-> InsertAt(c.doc, c.end - 1, Flatten(unique)), threw |-> FALSE]

\* mutant of SetBlock: the list is inserted as it is, duplicates included
SetBlockNoDedup(b, htmlList, siblings) ==
    Inserted(Cleared(b, IF siblings /\ b.start < b.end
                        THEN b.end ELSE SiblingsEnd(b.doc, b.start)),
             htmlList, siblings)

SetBlock(b, htmlList, siblings) ==
    Inserted(Cleared(b, IF siblings /\ b.start < b.end
                        THEN b.end ELSE SiblingsEnd(b.doc, b.start)),
             Unique(htmlList), siblings)

SetBlockIn(b, htmlList) ==
    SetBlock(b, htmlList, ParentOf(b.doc, b.start) = ParentOf(b.doc, b.end))

setCommentBlock(d, target, tName, htmlList, pos) ==
    SetBlockIn(ensureCommentBlock(d, target, tName, pos), htmlList)

(***************************************************************************)
(* init(): one tag (lines 131-160), and the whole run.                     *)
(***************************************************************************)
defaultSelector == ".taggit"

\* buckets.get(target).push(...found), the Map kept as a list in insertion order
BucketPush(bks, target, found) ==
    IF \E i \in 1..Len(bks) : bks[i].target = target
    THEN [i \in 1..Len(bks) |->
            IF bks[i].target = target
            THEN [bks[i] EXCEPT !.arr = @ \o found] ELSE bks[i]]
    ELSE Append(bks, [target |-> target, arr |-> found])

QueryAll(d, sc, selectors) ==
    Unique(Flatten([i \in 1..Len(selectors) |-> querySelectorAll(d, sc, selectors[i])]))

\* lines 132-140
SelectElements(d, sc, tg) ==
    QueryAll(d, sc, IF tg.selector = <<>> THEN <<defaultSelector>> ELSE tg.selector)

Returned(p) == [content |-> p.content, found |-> p.found, threw |-> FALSE, hung |-> FALSE]

\* lines 148-150
Extract(original, tName, tg) ==
    IF HasRegex(tg) THEN parseRegex(original, tg)
    ELSE Returned(parseShortcodeForTag(original, tName, tg))

\* line 152
WriteBack(d, el, content) ==
    IF content # InnerHTML(d, el) THEN SetInnerHTML(d, el, content) ELSE d

\* lines 156-158
PushTo(bks, target, found) == IF target = "" THEN bks ELSE BucketPush(bks, target, found)

\* lines 154-159
Collect(d, bks, tg, el, found) ==
    IF Truthy(tg.inject) /\ found # <<>>
    THEN PushTo(bks, resolveInjectTarget(d, tg.inject, el), found)
    ELSE bks

\* lines 146-160; an exception or an endless loop in the extractor ends the forEach
RECURSIVE ForEachElement(_, _, _, _, _)
AfterWrite(d, els, bks, tName, tg, found) ==
    ForEachElement(d, Tail(els), Collect(d, bks, tg, Head(els), found), tName, tg)

AfterExtract(d, els, bks, tName, tg, p) ==
    IF p.threw \/ p.hung
    THEN [doc |-> d, buckets |-> bks, threw |-> p.threw, hung |-> p.hung]
    ELSE AfterWrite(WriteBack(d, Head(els), p.content), els, bks, tName, tg, p.found)

ForEachElement(d, els, bks, tName, tg) ==
    IF els = <<>> THEN [doc |-> d, buckets |-> bks, threw |-> FALSE, hung |-> FALSE]
    ELSE AfterExtract(d, els, bks, tName, tg, Extract(InnerHTML(d, Head(els)), tName, tg))

\* lines 131-160
ProcessTag(d, sc, tName, tg) ==
    ForEachElement(d, SelectElements(d, sc, tg), <<>>, tName, tg)

\* lines 163-168
RECURSIVE InjectAll(_, _, _, _)
AfterSet(r, bks, tName, tg) ==
    IF r.threw THEN r ELSE InjectAll(r.doc, Tail(bks), tName, tg)

InjectAll(d, bks, tName, tg) ==
    IF bks = <<>> \/ ~Truthy(tg.inject) THEN [doc |-> d, threw |-> FALSE]
    ELSE AfterSet(setCommentBlock(d, Head(bks).target, tName, Head(bks).arr,
                                  normalizeInside(tg.position)),
                  bks, tName, tg)

\* init(root) as a whole, the tags taken in the given order
RECURSIVE RunInit(_, _, _, _)
AfterInject(inj, order, tags, sc) ==
    IF inj.threw THEN [doc |-> inj.doc, threw |-> TRUE, hung |-> FALSE]
    ELSE RunInit(inj.doc, Tail(order), tags, sc)

AfterProcess(p, order, tags, sc) ==
    IF p.threw \/ p.hung THEN [doc |-> p.doc, threw |-> p.threw, hung |-> p.hung]
    ELSE AfterInject(InjectAll(p.doc, p.buckets, Head(order), tags[Head(order)]),
                     order, tags, sc)

RunInit(d, order, tags, sc) ==
    IF order = <<>> THEN [doc |-> d, threw |-> FALSE, hung |-> FALSE]
    ELSE AfterProcess(ProcessTag(d, sc, Head(order), tags[Head(order)]), order, tags, sc)

RECURSIVE SeqsUpTo(_, _)
SeqsUpTo(S, n) ==
    IF n = 0 THEN {<<>>}
    ELSE LET shorter == SeqsUpTo(S, n - 1)
         IN  shorter \cup {Append(s, x) : s \in shorter, x \in S}

(***************************************************************************)
(* The extractors on their own: one call of parseShortcodeForTag, one call *)
(* of parseRegex followed statement by statement.                          *)
(***************************************************************************)
ShortcodePieces ==
    {<<"[">>, <<"]">>, <<" ">>, <<"x">>, <<"[", "A", " ">>, <<"[", "B", " ">>}

ShortcodeTexts == {Flatten(ps) : ps \in SeqsUpTo(ShortcodePieces, MaxLen)}

ShortcodeTags ==
    {Tag(<<>>, out, inj, "", NoRegex) : out \in {"bold", "hash", ""}, inj \in {<<>>, <<".box">>}}

RegexTexts == SeqsUpTo({"x", "y", "z", "#"}, MaxLen)

RegexTags ==
    {Tag(<<>>, out, <<".box">>, "", [source |-> src, flags |-> fl]) :
        out \in {"ital", ""}, src \in Sources, fl \in {"", "g", "i"}}

NoPage ==
    /\ config = [order |-> <<>>, tags |-> <<>>]
    /\ boxes = {}
    /\ doc = <<>>
    /\ scope = ""
    /\ ti = 0
    /\ buckets = <<>>
    /\ hist = <<>>

NoResult == [content |-> <<>>, found |-> <<>>]
NoRegExp == [source |-> "", flags |-> "", lastIndex |-> 0]

InitShortcode ==
    /\ NoPage
    /\ pc = "call"
    /\ text \in ShortcodeTexts
    /\ tagName \in {"A", "B"}
    /\ tag \in ShortcodeTags
    /\ parsed = NoResult
    /\ re = NoRegExp
    /\ iters = 0

CallParseShortcode ==
    /\ pc = "call"
    /\ parsed' = parseShortcodeForTag(text, tagName, tag)
    /\ pc' = "returned"
    /\ UNCHANGED <<domVars, text, tagName, tag, re, iters>>

NextShortcode == CallParseShortcode

SpecShortcode == InitShortcode /\ [][NextShortcode]_vars

InitRegex ==
    /\ NoPage
    /\ pc = "call"
    /\ text \in RegexTexts
    /\ tagName = ""
    /\ tag \in RegexTags
    /\ parsed = NoResult
    /\ re = NoRegExp
    /\ iters = 0

\* lines 196-203
RegexEnter ==
    /\ pc = "call"
    /\ re' = NewRegExp(tag.regex)
    /\ parsed' = [content |-> text, found |-> <<>>]
    /\ pc' = "loop"
    /\ UNCHANGED <<domVars, text, tagName, tag, iters>>

ExecDone(x) ==
    /\ re' = x.re
    /\ IF ~x.match
       THEN pc' = "replace" /\ UNCHANGED <<parsed, iters>>
       ELSE IF ~IsFunction(tag.output)
       THEN pc' = "threw" /\ UNCHANGED <<parsed, iters>>
       ELSE /\ parsed' = [parsed EXCEPT !.found = Append(@, Output(tag.output, x.group))]
            /\ iters' = iters + 1
            /\ pc' = "loop"

\* one evaluation of the loop condition of line 206 and, after a match, the body
RegexExec ==
    /\ pc = "loop"
    /\ iters < MaxIters
    /\ ExecDone(Exec(re, text))
    /\ UNCHANGED <<domVars, text, tagName, tag>>

\* lines 212-214
RegexReplace ==
    /\ pc = "replace"
    /\ parsed' = [parsed EXCEPT !.content = RemoveMatches(tag.regex.source, @, 1)]
    /\ pc' = "returned"
    /\ UNCHANGED <<domVars, text, tagName, tag, re, iters>>

NextRegex == RegexEnter \/ RegexExec \/ RegexReplace

SpecRegex == InitRegex /\ [][NextRegex]_vars


(***************************************************************************)
(* The page: new Taggi(config) runs init() on the document, the host then  *)
(* edits source elements and calls init(root) again.  A run is followed    *)
(* tag by tag and bucket by bucket; nothing else happens during a run.     *)
(***************************************************************************)
MarkerOf(name, c) == <<"[", name, " ", c, "]">>

\* pages whose tags inject: plain markers, every choice of boxes
PagePieces == {MarkerOf("A", "x"), MarkerOf("A", "y"), MarkerOf("B", "x")}
PageTexts == {Flatten(ps) : ps \in SeqsUpTo(PagePieces, MaxPieces)}

InjectConfigs ==
    {[order |-> o,
      tags |-> [A |-> Tag(sel, "bold", inj, pos, NoRegex),
                B |-> Tag(<<>>, "bold", <<".box">>, "", NoRegex)]] :
        o \in {<<"A", "B">>, <<"B", "A">>},
        sel \in {<<>>, <<"#E1", ".taggit">>},
        inj \in {<<".box">>, <<"!", ".box">>},
        pos \in {"beforeend", "after"}}

\* pages with brackets inside brackets
NestPieces == {<<"[", "A", " ">>, <<"[", "B", " ">>, MarkerOf("A", "x"), <<"]">>}
NestTexts == {Flatten(ps) : ps \in SeqsUpTo(NestPieces, MaxNest)}

NestConfigs ==
    {[order |-> o, tags |-> [A |-> a, B |-> b]] :
        o \in {<<"A", "B">>, <<"B", "A">>},
        a \in {Tag(<<>>, "hash", <<>>, "", NoRegex),
               Tag(<<>>, "", <<>>, "", NoRegex),
               Tag(<<>>, "bold", <<".box">>, "", NoRegex)},
        b \in {Tag(<<>>, "hash", <<>>, "", NoRegex),
               Tag(<<>>, "bold", <<".box">>, "before", NoRegex)}}

\* pages with a regex tag
RegexPieces == {<<"x">>, <<"y">>, <<"x", "y">>, <<"#">>}
RegexPageTexts == {Flatten(ps) : ps \in SeqsUpTo(RegexPieces, MaxNest)}

RegexConfigs ==
    {[order |-> o,
      tags |-> [A |-> Tag(<<>>, out, inj, "", [source |-> src, flags |-> "i"]),
                B |-> Tag(<<>>, "hash", <<>>, "", NoRegex)]] :
        o \in {<<"A", "B">>, <<"B", "A">>},
        out \in {"ital", ""},
        inj \in {<<>>, <<".box">>},
        src \in Sources}

EditTexts == {<<>>} \cup PagePieces

Scopes == {"document", "T2"}

Init ==
    /\ \/ /\ config \in InjectConfigs
          /\ boxes \in {{"T1", "T2"}, {"T1"}, {"T2"}}
          /\ \E t1 \in PageTexts, t2 \in PageTexts : doc = Page(t1, t2)
       \/ /\ config \in NestConfigs
          /\ boxes = {"T1", "T2"}
          /\ \E t1 \in NestTexts : doc = Page(t1, <<>>)
       \/ /\ config \in RegexConfigs
          /\ boxes = {"T1", "T2"}
          /\ \E t1 \in RegexPageTexts, t2 \in {<<>>, <<"x", "y">>} : doc = Page(t1, t2)
    /\ pc = "idle"
    /\ scope = "document"
    /\ ti = 0
    /\ buckets = <<>>
    /\ hist = [runs |-> 0, edits |-> 0, start |-> <<>>, clean |-> FALSE,
               again |-> FALSE, threw |-> FALSE, calls |-> <<>>]
    /\ text = <<>>
    /\ tagName = ""
    /\ tag = Tag(<<>>, "", <<>>, "", NoRegex)
    /\ parsed = NoResult
    /\ re = NoRegExp
    /\ iters = 0

extractorVars == <<text, tagName, tag, parsed, re, iters>>

CurrentTag == config.order[ti]

\* init(root) is entered (line 129); the constructor's call has no root
InitEnter(sc) ==
    /\ pc = "idle"
    /\ hist.runs < MaxRuns
    /\ hist.runs = 0 => sc = "document"
    /\ scope' = sc
    /\ ti' = 1
    /\ buckets' = <<>>
    /\ pc' = "tag"
    /\ hist' = [hist EXCEPT !.start = doc, !.threw = FALSE, !.calls = <<>>,
                            !.again = hist.clean /\ sc = scope]
    /\ UNCHANGED <<config, boxes, doc, extractorVars>>

\* the run is over: it returned, or an exception left it
Finished(threw) == [hist EXCEPT !.runs = @ + 1, !.threw = threw, !.clean = TRUE]

\* what init() does with the outcome p of a tag's forEach
TagDone(p, tg) ==
    /\ doc' = p.doc
    /\ IF p.hung THEN pc' = "hung" /\ UNCHANGED <<ti, buckets, hist>>
       ELSE IF p.threw
       THEN pc' = "idle" /\ hist' = Finished(TRUE) /\ UNCHANGED <<ti, buckets>>
       ELSE IF Truthy(tg.inject) /\ p.buckets # <<>>
       THEN pc' = "inject" /\ buckets' = p.buckets /\ UNCHANGED <<ti, hist>>
       ELSE pc' = "tag" /\ ti' = ti + 1 /\ UNCHANGED <<buckets, hist>>

\* lines 131-160 for the next tag of Object.entries(this.config)
ParseTag ==
    /\ pc = "tag"
    /\ ti <= Len(config.order)
    /\ TagDone(ProcessTag(doc, scope, CurrentTag, config.tags[CurrentTag]),
               config.tags[CurrentTag])
    /\ UNCHANGED <<config, boxes, scope, extractorVars>>

BucketDone(r, call) ==
    /\ doc' = r.doc
    /\ buckets' = Tail(buckets)
    /\ IF r.threw
       THEN pc' = "idle" /\ ti' = ti
            /\ hist' = [Finished(TRUE) EXCEPT !.calls = Append(@, call)]
       ELSE /\ hist' = [hist EXCEPT !.calls = Append(@, call)]
            /\ IF Tail(buckets) = <<>>
               THEN pc' = "tag" /\ ti' = ti + 1
               ELSE pc' = "inject" /\ ti' = ti

\* lines 165-167 for the next bucket of the Map
InjectBucket ==
    /\ pc = "inject"
    /\ BucketDone(setCommentBlock(doc, Head(buckets).target, CurrentTag, Head(buckets).arr,
                                  normalizeInside(config.tags[CurrentTag].position)),
                  [tag |-> CurrentTag, target |-> Head(buckets).target,
                   arr |-> Head(buckets).arr])
    /\ UNCHANGED <<config, boxes, scope, extractorVars>>

\* forEach is done: init() returns
InitReturn ==
    /\ pc = "tag"
    /\ ti > Len(config.order)
    /\ pc' = "idle"
    /\ hist' = Finished(FALSE)
    /\ UNCHANGED <<config, boxes, doc, scope, ti, buckets, extractorVars>>

\* between two runs the host page puts new text into a source element
Edit(el, t) ==
    /\ pc = "idle"
    /\ hist.runs >= 1
    /\ hist.runs < MaxRuns
    /\ hist.edits < MaxEdits
    /\ doc' = SetInnerHTML(doc, el, t)
    /\ hist' = [hist EXCEPT !.edits = @ + 1, !.clean = FALSE]
    /\ UNCHANGED <<config, boxes, pc, scope, ti, buckets, extractorVars>>

Next ==
    \/ \E sc \in Scopes : InitEnter(sc)
    \/ ParseTag
    \/ InjectBucket
    \/ InitReturn
    \/ \E el \in SourceElements, t \in EditTexts : Edit(el, t)

Spec == Init /\ [][Next]_vars


(***************************************************************************)
(* Properties.                                                             *)
(***************************************************************************)
TagNames == {"A", "B"}

\* a run has returned and nothing was edited since
Completed == pc = "idle" /\ hist.clean

\* the content between the pair that setCommentBlock would locate for (target, tName)
Between(b) == IF b.start = 0 \/ b.end = 0 THEN <<>> ELSE SubSeq(b.doc, b.start + 1, b.end - 1)
Region(d, target, tName) == Between(Located(d, target, tName))

\* the comments with this data that are children of target: the anchors inserted for it
OwnAnchors(d, target, data) ==
    {i \in 1..Len(d) : d[i] = Comment(data) /\ ParentOf(d, i) = target}

\* every comment with this data, and the elements they are children of
AnchorsOf(d, data) == {i \in 1..Len(d) : d[i] = Comment(data)}

ParentsOf(d, at) == {ParentOf(d, i) : i \in at}

OnePerParent(d, at) == \A i, j \in at : i < j => ParentOf(d, i) # ParentOf(d, j)

\* the content between the pair that is target's own
OwnRegion(d, target, tName) ==
    LET starts == OwnAnchors(d, target, startSig(tName))
    IN  IF starts = {} THEN <<>>
        ELSE LET i == CHOOSE j \in starts : TRUE
             IN  SubSeq(d, i + 1, IndexFrom(d, Comment(endSig(tName)), i) - 1)

\* every region of the tag, wherever its pair is
AllRegions(d, tName) ==
    {SubSeq(d, i + 1, IndexFrom(d, Comment(endSig(tName)), i) - 1) :
        i \in {j \in 1..Len(d) : d[j] = Comment(startSig(tName))}}

\* a region cut into its rendered fragments: each ends with its closing tag
IsCloser(tok) == tok \in {"</b>", "</i>", "</span>"}

RECURSIVE Fragments(_)
Fragments(r) ==
    IF r = <<>> THEN <<>>
    ELSE LET close == CHOOSE i \in 1..Len(r) :
                          /\ IsCloser(r[i]) \/ i = Len(r)
                          /\ \A j \in 1..(i - 1) : ~IsCloser(r[j])
         IN  <<SubSeq(r, 1, close)>> \o Fragments(SubSeq(r, close + 1, Len(r)))

NoDuplicate(list) == \A i, j \in 1..Len(list) : list[i] = list[j] => i = j

Range(list) == {list[i] : i \in 1..Len(list)}

LastCall == hist.calls[Len(hist.calls)]

\* what the last run put into the bucket of (target, tName)
Produced(target, tName) ==
    LET made == {i \in 1..Len(hist.calls) :
                    hist.calls[i].target = target /\ hist.calls[i].tag = tName}
    IN  IF made = {} THEN <<>> ELSE hist.calls[CHOOSE i \in made : TRUE].arr

StripAnchors(d) ==
    LET IsNoAnchor(tok) ==
            \A t \in TagNames : tok # Comment(startSig(t)) /\ tok # Comment(endSig(t))
    IN  SelectSeq(d, IsNoAnchor)

IsContiguousIn(part, whole) ==
    \E i \in 0..(Len(whole) - Len(part)) : SubSeq(whole, i + 1, i + Len(part)) = part

OtherTag(name) == IF name = "A" THEN "B" ELSE "A"

\* C1: whatever runs and edits there were, a target has at most one start anchor and
\* one end anchor of a tag among its children, and as many of the one as of the
\* other; a run that injects again for a (target, tag) inserts no second pair.
C1_OnePairPerTarget ==
    \A t \in TagNames :
        LET starts == AnchorsOf(doc, startSig(t))
            ends == AnchorsOf(doc, endSig(t))
        IN  /\ OnePerParent(doc, starts)
            /\ OnePerParent(doc, ends)
            /\ ParentsOf(doc, starts) = ParentsOf(doc, ends)

\* the second run injected for a (target, tag) whose pair the first had inserted
C1_PairReused ==
    /\ Completed /\ hist.runs = 2
    /\ \E i \in 1..Len(hist.calls) :
          LET c == hist.calls[i]
          IN  /\ OwnAnchors(hist.start, c.target, startSig(c.tag)) # {}
              /\ Cardinality(OwnAnchors(doc, c.target, startSig(c.tag))) = 1

\* C2 as amended: every setCommentBlock call replaces the whole content between the
\* pair it locates by the de-duplicated fragments of its bucket (seen here for the
\* latest call, after every step), and a run that built no bucket for a tag leaves
\* every region of that tag as it was when the run started.
C2_RegionIsLastWrite ==
    /\ hist.calls # <<>> =>
          Region(doc, LastCall.target, LastCall.tag) = Flatten(Unique(LastCall.arr))
    /\ Completed =>
          \A t \in TagNames :
              (\A i \in 1..Len(hist.calls) : hist.calls[i].tag # t) =>
                  \A e \in Elements : Region(doc, e, t) = Region(hist.start, e, t)

\* the second run replaced fragments that the first had put in a region
C2_Replaced ==
    /\ Completed /\ hist.runs = 2 /\ hist.calls # <<>>
    /\ Region(hist.start, LastCall.target, LastCall.tag)
           \notin {<<>>, Flatten(Unique(LastCall.arr))}
    /\ Region(doc, LastCall.target, LastCall.tag) = Flatten(Unique(LastCall.arr))

\* C2 as claimed: after a completed run every (target, tag) region holds exactly the
\* de-duplicated fragments this run produced for it, nothing when it produced none.
\* Stated for pages with one box, where no two targets can meet in one region.
C2_RegionIsLastRun ==
    (Completed /\ ~hist.threw /\ Cardinality(boxes) = 1) =>
        \A e \in Elements, t \in TagNames :
            OwnAnchors(doc, e, startSig(t)) # {} =>
                OwnRegion(doc, e, t) = Flatten(Unique(Produced(e, t)))

\* C3: a run that repeats the run before it (same scope, nothing edited in between)
\* leaves the document as that run left it, anchors aside.
C3_Idempotent ==
    (Completed /\ hist.again) => StripAnchors(doc) = StripAnchors(hist.start)

\* C4: no region ever holds the same rendered fragment twice; the region written last
\* holds one copy of each distinct fragment of its bucket; and a bucket equal to
\* what the region held when the run started leaves the region as it was.
C4_NoDuplicateFragment ==
    /\ \A t \in TagNames : \A r \in AllRegions(doc, t) : NoDuplicate(Fragments(r))
    /\ hist.calls # <<>> =>
          LET now == Region(doc, LastCall.target, LastCall.tag)
              was == Region(hist.start, LastCall.target, LastCall.tag)
          IN  /\ Len(Fragments(now)) = Cardinality(Range(LastCall.arr))
              /\ Range(Fragments(now)) = Range(LastCall.arr)
              /\ Fragments(was) = Unique(LastCall.arr) => now = was

\* two source elements gave the same fragment for one target and the region holds it once
C4_OneCopy ==
    /\ Completed /\ hist.calls # <<>>
    /\ InnerHTML(hist.start, "E1") = MarkerOf("A", "x")
    /\ InnerHTML(hist.start, "E2") = MarkerOf("A", "x")
    /\ LastCall.arr = <<Output("bold", <<"x">>), Output("bold", <<"x">>)>>
    /\ Region(doc, LastCall.target, LastCall.tag) = Output("bold", <<"x">>)

\* C5: the exec loop has matched at most once per position of the text.
C5_LoopBounded == iters <= Len(text) + 1

\* C6: the pass for tagName leaves every marker of the other tag in the returned
\* content as it stood in the text, and the other tag's pass finds in the content
\* what it would have found in the text.
C6_TagIsolation ==
    pc = "returned" =>
        /\ \A i \in 1..Len(text) :
              (MarkerAt(text, i).ok /\ MarkerAt(text, i).name = <<OtherTag(tagName)>>) =>
                  IsContiguousIn(SubSeq(text, i, MarkerAt(text, i).end), parsed.content)
        /\ parseShortcodeForTag(parsed.content, OtherTag(tagName), tag).found
               = parseShortcodeForTag(text, OtherTag(tagName), tag).found

\* C7: the document after a run is the one the run leaves when it takes the tags
\* in the opposite order.
C7_OrderIndependent ==
    (Completed /\ ~hist.threw) =>
        doc = RunInit(hist.start, Reverse(config.order), config.tags, scope).doc

\* C8: the content returned by the pass for tagName holds no marker of tagName.
C8_NoMarkerLeft ==
    pc = "returned" =>
        \A i \in 1..Len(parsed.content) :
            ~(MarkerAt(parsed.content, i).ok /\ MarkerAt(parsed.content, i).name = <<tagName>>)

\* C9: a run over a regex tag without output function that selects some element of
\* the scope ends with the error.
C9_FailsFast ==
    Completed =>
        \A t \in TagNames :
            (/\ HasRegex(config.tags[t])
             /\ ~IsFunction(config.tags[t].output)
             /\ SelectElements(hist.start, scope, config.tags[t]) # <<>>) => hist.threw

\* C10: after a run, the fragments of every bucket stand between the pair that is
\* the bucket's target's own.
C10_OwnRegion ==
    (Completed /\ ~hist.threw) =>
        \A i \in 1..Len(hist.calls) :
            OwnRegion(doc, hist.calls[i].target, hist.calls[i].tag)
                = Flatten(Unique(hist.calls[i].arr))

=============================================================================
